---- MODULE Spec2Model ----
(***************************************************************************)
(* Model of the Sigma rule evaluation harness.                             *)
(*                                                                         *)
(*   src/evaluation/evaluate.py                 the "main" harness         *)
(*   src/benchmark-ai/evaluation/evaluate.py    the "bench" harness        *)
(*                                                                         *)
(* Real numbers are exact rationals.  A metric value is an integer number  *)
(* of 1/Scale units, a weight is in hundredths, so an overall score is an  *)
(* integer number of 1/(Scale * 100) units.  Python floats also have the   *)
(* values nan, inf and -inf, which the arithmetic below propagates as      *)
(* IEEE-754 does.                                                          *)
(***************************************************************************)
EXTENDS Integers, Sequences, FiniteSets, TLC

\* ------------------------------------------------------------------ bounds
MaxCases == 2
MaxRetries == 2
MaxCalls == 2
MaxPolls == 3

\* ------------------------------------------------------------- arithmetic
Scale == 3 * 4 * 5
Hundred == 10 * 10
ScoreUnit == Scale * Hundred

Fin(v) == [k |-> "fin", v |-> v]
NaN == [k |-> "nan", v |-> 0]
PosInf == [k |-> "inf", v |-> 0]
NegInf == [k |-> "ninf", v |-> 0]

\* x < y on floats: every comparison with nan is false
FLt(x, y) ==
    CASE x.k = "nan" \/ y.k = "nan" -> FALSE
      [] x.k = "ninf" -> y.k # "ninf"
      [] x.k = "inf" -> FALSE
      [] y.k = "inf" -> TRUE
      [] y.k = "ninf" -> FALSE
      [] OTHER -> x.v < y.v

\* x + y on floats
FAdd(x, y) ==
    CASE x.k = "nan" \/ y.k = "nan" -> NaN
      [] x.k = "fin" /\ y.k = "fin" -> Fin(x.v + y.v)
      [] x.k = "fin" -> y
      [] y.k = "fin" -> x
      [] x.k = y.k -> x
      [] OTHER -> NaN

\* x * w for a finite weight w > 0 given in hundredths
FMulWeight(x, w) == IF x.k = "fin" THEN Fin(x.v * w) ELSE x

\* Python's max(a, b) and min(a, b): the first argument is kept unless the
\* second one compares strictly greater (smaller)
PyMax(a, b) == IF FLt(a, b) THEN b ELSE a
PyMin(a, b) == IF FLt(b, a) THEN b ELSE a

\* ---------------------------------------------------------- Python values
PyNone == [t |-> "none"]
PyStr(s) == [t |-> "str", s |-> s]
PyFloat(f) == [t |-> "float", f |-> f]
PyInt(n) == [t |-> "int", n |-> n, big |-> FALSE]
\* an integer of more than 308 decimal digits (beyond the range of a float)
PyBigInt == [t |-> "int", n |-> 0, big |-> TRUE]
PyList(items) == [t |-> "list", items |-> items]
PyDict(d) == [t |-> "dict", d |-> d]
PyTuple(items) == [t |-> "tuple", items |-> items]

EmptyDict == <<>>
ScoreDict(x) == [key \in {"score"} |-> x]

Ok(v) == [exc |-> "none", val |-> v]
Raise(e) == [exc |-> e, val |-> PyNone]

\* float(s) for the strings that occur as score fields
StrToFloat(s) ==
    CASE s = "0.75" -> Ok(Fin((3 * Scale) \div 4))
      [] s = "nan" -> Ok(NaN)
      [] OTHER -> Raise("ValueError")

\* float(x)
float(x) ==
    CASE x.t = "float" -> Ok(x.f)
      [] x.t = "int" -> IF x.big THEN Raise("OverflowError") ELSE Ok(Fin(x.n * Scale))
      [] x.t = "str" -> StrToFloat(x.s)
      [] OTHER -> Raise("TypeError")

\* ------------------------------------------------- judge response strings
TXT_GOOD == "good"
TXT_GOOD_CAP == "Good"
TXT_EXCELLENT_UP == "EXCELLENT"
TXT_FAIR == "fair"
TXT_POOR == "poor"
TXT_BAD == "bad"
TXT_GIBBERISH == "gibberish"
TXT_OBJ_09 == "{\"score\": 0.9}"
TXT_OBJ_STR075 == "{\"score\": \"0.75\"}"
TXT_OBJ_HIGH == "{\"score\": \"high\"}"
TXT_OBJ_NULL == "{\"score\": null}"
TXT_OBJ_NOSCORE == "{\"verdict\": \"good\"}"
TXT_OBJ_7 == "{\"score\": 7}"
TXT_OBJ_NEG == "{\"score\": -1}"
TXT_OBJ_NAN == "{\"score\": NaN}"
TXT_OBJ_STRNAN == "{\"score\": \"nan\"}"
TXT_OBJ_1E400 == "{\"score\": 1e400}"
TXT_OBJ_BIGINT == "{\"score\": 1<400 zeros>}"
TXT_JSON_STR_GOOD == "\"good\""
TXT_JSON_LIST == "[0.9]"
TXT_JSON_NUM == "0.9"
TXT_JSON_NULL == "null"

Nine10 == (9 * Scale) \div 10
Half == Scale \div 2

\* json.loads(s): the parsed value, or JSONDecodeError (a ValueError)
JsonLoads(s) ==
    CASE s = TXT_OBJ_09 -> Ok(PyDict(ScoreDict(PyFloat(Fin(Nine10)))))
      [] s = TXT_OBJ_STR075 -> Ok(PyDict(ScoreDict(PyStr("0.75"))))
      [] s = TXT_OBJ_HIGH -> Ok(PyDict(ScoreDict(PyStr("high"))))
      [] s = TXT_OBJ_NULL -> Ok(PyDict(ScoreDict(PyNone)))
      [] s = TXT_OBJ_NOSCORE -> Ok(PyDict([key \in {"verdict"} |-> PyStr("good")]))
      [] s = TXT_OBJ_7 -> Ok(PyDict(ScoreDict(PyInt(7))))
      [] s = TXT_OBJ_NEG -> Ok(PyDict(ScoreDict(PyInt(-1))))
      [] s = TXT_OBJ_NAN -> Ok(PyDict(ScoreDict(PyFloat(NaN))))
      [] s = TXT_OBJ_STRNAN -> Ok(PyDict(ScoreDict(PyStr("nan"))))
      [] s = TXT_OBJ_1E400 -> Ok(PyDict(ScoreDict(PyFloat(PosInf))))
      [] s = TXT_OBJ_BIGINT -> Ok(PyDict(ScoreDict(PyBigInt)))
      [] s = TXT_JSON_STR_GOOD -> Ok(PyStr("good"))
      [] s = TXT_JSON_LIST -> Ok(PyList(<<PyFloat(Fin(Nine10))>>))
      [] s = TXT_JSON_NUM -> Ok(PyFloat(Fin(Nine10)))
      [] s = TXT_JSON_NULL -> Ok(PyNone)
      [] OTHER -> Raise("JSONDecodeError")

\* s.lower()
lower(s) ==
    CASE s = TXT_GOOD_CAP -> "good"
      [] s = TXT_EXCELLENT_UP -> "excellent"
      [] s = TXT_OBJ_NAN -> "{\"score\": nan}"
      [] OTHER -> s

\* d.get(key, default)
DictGet(d, key, default) == IF key \in DOMAIN d THEN d[key] ELSE default

\* ------------------------------------------------ calculate_combined_score
weights ==
    [valid_yaml |-> 15, has_required_fields |-> 20,
     detection_logic_similarity |-> 25, metadata_completeness |-> 10,
     llm_judgment |-> 30]

score_mapping ==
    [excellent |-> Fin(Scale), good |-> Fin((3 * Scale) \div 4),
     fair |-> Fin(Scale \div 2), poor |-> Fin(Scale \div 4), bad |-> Fin(0)]

CaughtByScoreParsing == {"ValueError", "AttributeError", "TypeError", "JSONDecodeError"}

\* the try block that turns metrics["llm_judgment"] into llm_score
ParseLlmScore(j) ==
    IF j.t = "str"
    THEN LET judgment_dict == JsonLoads(j.s) IN
         IF judgment_dict.exc # "none" THEN Raise(judgment_dict.exc)
         ELSE IF judgment_dict.val.t = "dict"
              THEN float(DictGet(judgment_dict.val.d, "score", PyFloat(Fin(Half))))
              ELSE Ok(DictGet(score_mapping, lower(j.s), Fin(Half)))
    ELSE float(j)

\* the try/except around it: the listed exception types give the default 0.5,
\* any other exception leaves calculate_combined_score
LlmScore(j) ==
    LET r == ParseLlmScore(j) IN
    IF r.exc \in CaughtByScoreParsing THEN Ok(Fin(Half)) ELSE r

\* a weighted sum rescaled by the total weight of the metrics present
WeightedSumRenormalised(m) ==
    LET present == {key \in DOMAIN weights : key \in DOMAIN m}
        term(key) == IF key \in DOMAIN m THEN FMulWeight(m[key].f, weights[key]) ELSE Fin(0)
        total == (IF "valid_yaml" \in present THEN weights["valid_yaml"] ELSE 0)
                 + (IF "has_required_fields" \in present
                    THEN weights["has_required_fields"] ELSE 0)
                 + (IF "detection_logic_similarity" \in present
                    THEN weights["detection_logic_similarity"] ELSE 0)
                 + (IF "metadata_completeness" \in present
                    THEN weights["metadata_completeness"] ELSE 0)
                 + (IF "llm_judgment" \in present THEN weights["llm_judgment"] ELSE 0)
        raw == FAdd(FAdd(FAdd(FAdd(FAdd(Fin(0), term("valid_yaml")),
                                   term("has_required_fields")),
                              term("detection_logic_similarity")),
                         term("metadata_completeness")),
                    term("llm_judgment"))
    IN IF raw.k = "fin" /\ total > 0 THEN Fin((raw.v * Hundred) \div total) ELSE raw

WeightedSum(m) ==
    LET term(key) == IF key \in DOMAIN m THEN FMulWeight(m[key].f, weights[key]) ELSE Fin(0)
    IN FAdd(FAdd(FAdd(FAdd(FAdd(Fin(0), term("valid_yaml")),
                                term("has_required_fields")),
                           term("detection_logic_similarity")),
                      term("metadata_completeness")),
            term("llm_judgment"))

Clamp(overall_score) == PyMin(PyMax(overall_score, Fin(0)), Fin(ScoreUnit))

\* calculate_combined_score(metrics): Ok(score) or an escaping exception.
\* llm_score records the judgment score that entered the sum.
calculate_combined_score(metrics) ==
    LET has == "llm_judgment" \in DOMAIN metrics
        ls == IF has THEN LlmScore(metrics["llm_judgment"]) ELSE Ok(Fin(Half))
        metrics_for_calculation ==
            [key \in DOMAIN metrics |->
                IF key = "llm_judgment" THEN PyFloat(ls.val) ELSE metrics[key]]
    IN IF has /\ ls.exc # "none"
       THEN [exc |-> ls.exc, val |-> Fin(0), llm_score |-> Fin(0)]
       ELSE [exc |-> "none", val |-> Clamp(WeightedSum(metrics_for_calculation)),
             llm_score |-> ls.val]

\* ------------------------------------------------------------- rule texts
RULE_FULL_A == "title: T\nlogsource: L\ndetection: A\ndescription: D\nauthor: X\ndate: d\nlevel: high\ntags: t"
RULE_MIN_A == "title: T\ndetection: A"
RULE_MIN_B == "title: T\ndetection: B"
RULE_EMPTY_TITLE == "title: ''\ndescription: detection"
RULE_BAD == "title: [x"
RULE_EMPTY == ""
RULE_SCALAR == "a title and detection"
RULE_LIST == "- title\n- tags"

Mapping(keys, detection) ==
    PyDict([key \in keys |-> IF key = "detection" THEN PyStr(detection) ELSE PyStr("x")])

\* yaml.safe_load(text): the parsed document, or yaml.YAMLError
YamlLoad(text) ==
    CASE text = RULE_FULL_A ->
            Ok(Mapping({"title", "logsource", "detection", "description",
                        "author", "date", "level", "tags"}, "A"))
      [] text = RULE_MIN_A -> Ok(Mapping({"title", "detection"}, "A"))
      [] text = RULE_MIN_B -> Ok(Mapping({"title", "detection"}, "B"))
      [] text = RULE_EMPTY_TITLE -> Ok(PyDict([title |-> PyStr(""), description |-> PyStr("detection")]))
      [] text = RULE_EMPTY -> Ok(PyNone)
      [] text = RULE_SCALAR -> Ok(PyStr(RULE_SCALAR))
      [] text = RULE_LIST -> Ok(PyList(<<PyStr("title"), PyStr("tags")>>))
      [] OTHER -> Raise("YAMLError")

\* ---------------------------------------------- calculate_langchain_metrics
required_fields == {"title", "detection", "logsource"}
metadata_fields == {"description", "author", "date", "level", "tags"}

\* field in s, for a string s
IsSubstring(field, s) == s = RULE_SCALAR /\ field \in {"title", "detection"}

\* field in container: Ok(TRUE / FALSE) or TypeError (container not iterable)
In(field, container) ==
    CASE container.t = "dict" -> Ok(field \in DOMAIN container.d)
      [] container.t = "str" -> Ok(IsSubstring(field, container.s))
      [] container.t = "list" ->
            Ok(\E i \in 1..Len(container.items) : container.items[i] = PyStr(field))
      [] OTHER -> Raise("TypeError")

\* sum(1 for field in fields if field in generated) / len(fields)
FractionPresent(fields, generated) ==
    (Cardinality({field \in fields : In(field, generated).val = TRUE}) * Scale)
        \div Cardinality(fields)

\* str(doc.get("detection", {})): AttributeError when doc has no get
DetectionString(doc) ==
    IF doc.t # "dict" THEN Raise("AttributeError")
    ELSE IF "detection" \in DOMAIN doc.d THEN Ok(doc.d["detection"].s) ELSE Ok("{}")

\* The string_distance evaluator (langchain, normalised Jaro-Winkler
\* distance): 0 for equal strings and a value in (0, 1] for different ones.
\* ev.ok is false when loading or running the evaluator raises; ev.dist
\* stands for the distance of the two different texts.
evaluate_strings(prediction, reference, ev) ==
    IF ~ev.ok THEN Raise("Exception")
    ELSE IF prediction = reference THEN Ok(Fin(0)) ELSE Ok(Fin(ev.dist))

ZeroMetrics ==
    [valid_yaml |-> PyFloat(Fin(0)), has_required_fields |-> PyFloat(Fin(0)),
     detection_logic_similarity |-> PyFloat(Fin(0)),
     metadata_completeness |-> PyFloat(Fin(0))]

\* the inner try/except: any exception gives 0.0
DetectionSimilarity(generated, expected, ev) ==
    LET p == DetectionString(generated)
        r == DetectionString(expected)
        res == IF ~ev.ok \/ p.exc # "none" \/ r.exc # "none"
               THEN Raise("Exception")
               ELSE evaluate_strings(p.val, r.val, ev)
    IN IF res.exc # "none" THEN Fin(0) ELSE res.val

\* a scorer that lets a failure of the similarity computation escape
calculate_langchain_metrics_aborts(generated_rule, expected_rule, ev) ==
    LET generated == YamlLoad(generated_rule)
        expected == YamlLoad(expected_rule)
    IN IF generated.exc # "none" \/ expected.exc # "none"
       THEN Ok(PyTuple(<<PyDict(ZeroMetrics), PyFloat(Fin(0))>>))
       ELSE IF In("title", generated.val).exc # "none"
       THEN Raise(In("title", generated.val).exc)
       ELSE IF DetectionString(generated.val).exc # "none"
       THEN Raise(DetectionString(generated.val).exc)
       ELSE IF DetectionString(expected.val).exc # "none"
       THEN Raise(DetectionString(expected.val).exc)
       ELSE IF ~ev.ok
       THEN Raise("Exception")
       ELSE Ok(PyDict(
               [valid_yaml |-> PyFloat(Fin(Scale)),
                has_required_fields |->
                    PyFloat(Fin(FractionPresent(required_fields, generated.val))),
                detection_logic_similarity |->
                    PyFloat(DetectionSimilarity(generated.val, expected.val, ev)),
                metadata_completeness |->
                    PyFloat(Fin(FractionPresent(metadata_fields, generated.val)))]))

calculate_langchain_metrics(generated_rule, expected_rule, ev) ==
    LET generated == YamlLoad(generated_rule)
        expected == YamlLoad(expected_rule)
    IN IF generated.exc # "none" \/ expected.exc # "none"
       THEN Ok(PyTuple(<<PyDict(ZeroMetrics), PyFloat(Fin(0))>>))
       ELSE IF In("title", generated.val).exc # "none"
       THEN Raise(In("title", generated.val).exc)
       ELSE Ok(PyDict(
               [valid_yaml |-> PyFloat(Fin(Scale)),
                has_required_fields |->
                    PyFloat(Fin(FractionPresent(required_fields, generated.val))),
                detection_logic_similarity |->
                    PyFloat(DetectionSimilarity(generated.val, expected.val, ev)),
                metadata_completeness |->
                    PyFloat(Fin(FractionPresent(metadata_fields, generated.val)))]))

\* ------------------------------------------------------ the harness state
VARIABLES
    variant,            \* "main": src/evaluation, "bench": src/benchmark-ai/evaluation
    config,             \* the config dict: key -> "set" or "None"
    test_cases,         \* the list given to run_evaluation
    results,            \* the ledger being built
    idx,                \* 1-based index of the case being processed
    pc,                 \* where run_evaluation is
    inflight,           \* the HTTP request awaiting its response
    response,           \* the last HTTP response received for the current (last) case
    yaml_block,         \* the rule returned by generate_rule
    langchain_metrics,  \* the value returned by calculate_langchain_metrics
    retry_after,        \* seconds the current time.sleep lasts
    depth,              \* recursion depth of generate_rule (retries of this case)
    sent,               \* the requests issued for the current (last) case, in order
    slept,              \* the time.sleep durations of the current (last) case
    fn,                 \* the arguments and result of a direct scoring call
    caller,             \* who calls run_evaluation: main() or other code with its own config
    summary,            \* the run summary main() prints
    updater,            \* a SigmaRuleUpdater object, its rule directory and its last call
    app                 \* the Rule Generator service handling one request

vars == <<variant, config, test_cases, results, idx, pc, inflight, response, yaml_block,
          langchain_metrics, retry_after, depth, sent, slept, fn, caller, summary,
          updater, app>>

required_config == {"RULE_GENERATOR_URL", "SERVICE_API_KEY",
                    "OPENAI_ASSISTANT_ID", "JUDGE_ASSISTANT_ID"}

FullConfig == [key \in required_config \cup {"OPENAI_API_KEY"} |-> "set"]

NoRequest == [endpoint |-> "none"]
NoResponse == [endpoint |-> "none", status |-> 0, has_field |-> FALSE]
FnIdle == [stage |-> "idle"]
NoUpdater == [stage |-> "none"]
NoApp == [stage |-> "none"]

RulesRequest(query) ==
    [endpoint |-> "/api/v1/rules",
     body |-> [query |-> query, assistant_id |-> config["OPENAI_ASSISTANT_ID"]]]

JudgeRequest(rule1, rule2) ==
    [endpoint |-> "/api/v1/judge",
     body |-> [rule1 |-> rule1, rule2 |-> rule2,
               assistant_id |-> config["JUDGE_ASSISTANT_ID"]]]

\* ------------------------------------------------------------ input sets
\* the test-case lists given to run_evaluation: the cases of the pool taken in
\* turn, starting from any of them, up to MaxCases cases
TestCaseCycle ==
    <<[query |-> "q1", expected_rule |-> RULE_FULL_A],
      [query |-> "q2", expected_rule |-> RULE_MIN_B]>>

TestCasePool == {TestCaseCycle[i] : i \in 1..Len(TestCaseCycle)}

\* a record of the test file without the "query" key (json.load checks nothing)
CASE_NO_QUERY == [expected_rule |-> RULE_MIN_B]

\* the lists with one such record, at any position
MalformedLists ==
    {[i \in 1..n |-> IF i = k THEN CASE_NO_QUERY
                     ELSE TestCaseCycle[(i % Len(TestCaseCycle)) + 1]] :
        n \in 1..MaxCases, k \in 1..MaxCases}

CaseLists ==
    {[i \in 1..n |-> TestCaseCycle[((i + first) % Len(TestCaseCycle)) + 1]] :
        n \in 0..MaxCases, first \in 1..Len(TestCaseCycle)}
    \cup {l \in MalformedLists : \E i \in 1..Len(l) : l[i] = CASE_NO_QUERY}

GeneratedRules == {RULE_FULL_A, RULE_MIN_B, RULE_BAD, RULE_EMPTY, RULE_SCALAR}

Evaluators == {[ok |-> TRUE, dist |-> Scale \div 4], [ok |-> FALSE, dist |-> 0]}

BatchJudgments ==
    {PyStr(TXT_OBJ_09), PyStr(TXT_GOOD), PyDict(ScoreDict(PyFloat(Fin(Nine10)))),
     PyStr(TXT_OBJ_NAN), PyStr(TXT_OBJ_BIGINT)}

\* responses of POST /api/v1/rules
RulesResponses ==
    {[endpoint |-> "/api/v1/rules", status |-> 200, has_field |-> TRUE, rule |-> r,
      header |-> "absent"] : r \in GeneratedRules}
    \cup {[endpoint |-> "/api/v1/rules", status |-> 200, has_field |-> FALSE, rule |-> "",
           header |-> "absent"]}
    \cup {[endpoint |-> "/api/v1/rules", status |-> st, has_field |-> FALSE, rule |-> "",
           header |-> "absent"] : st \in {500, 401}}
    \cup {[endpoint |-> "/api/v1/rules", status |-> 429, has_field |-> FALSE, rule |-> "",
           header |-> h] :
             h \in {"absent", "2", "http-date"}}

\* responses of POST /api/v1/judge
JudgeResponses ==
    {[endpoint |-> "/api/v1/judge", status |-> 200, has_field |-> TRUE, judgment |-> j] :
        j \in BatchJudgments}
    \cup {[endpoint |-> "/api/v1/judge", status |-> 200, has_field |-> FALSE,
           judgment |-> PyNone]}
    \cup {[endpoint |-> "/api/v1/judge", status |-> st, has_field |-> FALSE,
           judgment |-> PyNone] : st \in {500, 429}}

\* ------------------------------------------------------------ generate_rule
DefaultRetryAfter == 60

\* int(response.headers.get('Retry-After', 60))
RetryAfterSeconds(header) ==
    CASE header = "absent" -> Ok(DefaultRetryAfter)
      [] header = "2" -> Ok(2)
      [] OTHER -> Raise("ValueError")

GenerateFailedText(status) ==
    CASE status = 429 -> "Failed to generate rule: 429 Client Error"
      [] status = 401 -> "Failed to generate rule: 401 Client Error"
      [] OTHER -> "Failed to generate rule: 500 Server Error"

JudgeFailedText(status) ==
    CASE status = 429 -> "Failed to get judgment: 429 Client Error"
      [] status = 401 -> "Failed to get judgment: 401 Client Error"
      [] OTHER -> "Failed to get judgment: 500 Server Error"

Return(v) == [kind |-> "return", val |-> v, error |-> "", seconds |-> 0]
Throw(e) == [kind |-> "raise", val |-> PyNone, error |-> e, seconds |-> 0]
SleepAndRetry(n) == [kind |-> "retry", val |-> PyNone, error |-> "", seconds |-> n]

\* a generate_rule that answers a failed request with a stand-in rule
generate_rule_main_falls_back(resp) ==
    IF resp.status # 200 THEN Return(RULE_MIN_B)
    ELSE IF ~resp.has_field THEN Throw("'rule'")
    ELSE Return(resp.rule)

\* src/evaluation/evaluate.py: what generate_rule does with a response
generate_rule_main(resp) ==
    IF resp.status # 200 THEN Throw(GenerateFailedText(resp.status))
    ELSE IF ~resp.has_field THEN Throw("'rule'")
    ELSE Return(resp.rule)

\* src/benchmark-ai/evaluation/evaluate.py: what generate_rule does with a response
generate_rule_bench(resp) ==
    IF resp.status = 429
    THEN IF RetryAfterSeconds(resp.header).exc # "none"
         THEN Throw("invalid literal for int() with base 10")
         ELSE SleepAndRetry(RetryAfterSeconds(resp.header).val)
    ELSE IF resp.status = 401
    THEN Throw("Authentication failed. Check your SERVICE_API_KEY.")
    ELSE IF resp.status # 200 THEN Throw(GenerateFailedText(resp.status))
    ELSE IF ~resp.has_field THEN Throw("'rule'")
    ELSE Return(resp.rule)

generate_rule(v, resp) ==
    IF v = "main" THEN generate_rule_main(resp) ELSE generate_rule_bench(resp)

\* a judge call that swallows an HTTP error and hands back a neutral judgment
get_judge_comparison_swallows(resp) ==
    IF resp.status # 200 THEN Return(PyStr(TXT_FAIR))
    ELSE IF ~resp.has_field THEN Throw("'judgment'")
    ELSE Return(resp.judgment)

\* what get_judge_comparison does with a response (the same in both harnesses)
get_judge_comparison(resp) ==
    IF resp.status # 200 THEN Throw(JudgeFailedText(resp.status))
    ELSE IF ~resp.has_field THEN Throw("'judgment'")
    ELSE Return(resp.judgment)

\* ------------------------------------------------------------ evaluate_rule
\* src/evaluation/evaluate.py, after get_judge_comparison returned llm_judgment:
\* (combined_metrics, overall_score), or the exception that leaves evaluate_rule
evaluate_rule_main(lm, llm_judgment) ==
    IF lm.t # "dict" THEN Throw("'tuple' object is not a mapping")
    ELSE LET combined_metrics ==
                 [key \in DOMAIN lm.d \cup {"llm_judgment"} |->
                     IF key = "llm_judgment" THEN llm_judgment ELSE lm.d[key]]
             overall_score == calculate_combined_score(combined_metrics)
         IN IF overall_score.exc # "none"
            THEN Throw("int too large to convert to float")
            ELSE Return([metrics |-> combined_metrics, score |-> overall_score.val])

\* an evaluate_rule whose scoring function exists and returns
evaluate_rule_bench_scores(llm_judgment) ==
    Return([metrics |-> [key \in {"llm_judgment"} |-> llm_judgment], score |-> Fin(0)])

\* src/benchmark-ai/evaluation/evaluate.py: the three-argument evaluate_rule
\* calls calculate_score, which is defined nowhere
evaluate_rule_bench(llm_judgment) == Throw("name 'calculate_score' is not defined")

\* ----------------------------------------------------------- run_evaluation
SuccessEntry(v, case, rule, er) ==
    IF v = "main"
    THEN [query |-> case.query, generated_rule |-> rule,
          expected_rule |-> case.expected_rule, metrics |-> PyDict(er.metrics),
          overall_score |-> er.score,
          llm_judgment_text |-> er.metrics["llm_judgment"]]
    ELSE [query |-> case.query, generated_rule |-> rule,
          expected_rule |-> case.expected_rule, metrics |-> PyDict(er.metrics),
          overall_score |-> er.score]

\* a failure entry that keeps a zeroed metric set next to the error
FailureEntryKeepsMetrics(v, case, e) ==
    IF v = "main"
    THEN [query |-> case.query, error |-> e, metrics |-> PyDict(ZeroMetrics),
          overall_score |-> Fin(0), llm_judgment_text |-> PyNone]
    ELSE [query |-> case.query, error |-> e, metrics |-> PyDict(ZeroMetrics),
          overall_score |-> Fin(0)]

\* a failure entry that also records the expected rule of the case
FailureEntryKeepsExpected(v, case, e) ==
    IF v = "main"
    THEN [query |-> case.query, error |-> e, metrics |-> PyNone,
          overall_score |-> Fin(0), llm_judgment_text |-> PyNone,
          expected_rule |-> case.expected_rule]
    ELSE [query |-> case.query, error |-> e, metrics |-> PyNone,
          overall_score |-> Fin(0), expected_rule |-> case.expected_rule]

FailureEntry(v, case, e) ==
    IF v = "main"
    THEN [query |-> case.query, error |-> e, metrics |-> PyNone,
          overall_score |-> Fin(0), llm_judgment_text |-> PyNone]
    ELSE [query |-> case.query, error |-> e, metrics |-> PyNone,
          overall_score |-> Fin(0)]

\* a handler that lets the exception end the run instead of recording it
CaseFailedAborts(e) ==
    /\ results' = results
    /\ idx' = idx
    /\ pc' = "done"
    /\ inflight' = NoRequest
    /\ yaml_block' = ""
    /\ langchain_metrics' = PyNone
    /\ retry_after' = 0
    /\ depth' = 0

\* a handler that puts the failure entry at the head of the ledger
CaseFailedPrepends(e) ==
    /\ results' = <<FailureEntry(variant, test_cases[idx], e)>> \o results
    /\ idx' = idx + 1
    /\ pc' = "case"
    /\ inflight' = NoRequest
    /\ yaml_block' = ""
    /\ langchain_metrics' = PyNone
    /\ retry_after' = 0
    /\ depth' = 0

\* the except branch of the loop body: record the failure, go on with the next case
CaseFailed(e) ==
    /\ results' = Append(results, FailureEntry(variant, test_cases[idx], e))
    /\ idx' = idx + 1
    /\ pc' = "case"
    /\ inflight' = NoRequest
    /\ yaml_block' = ""
    /\ langchain_metrics' = PyNone
    /\ retry_after' = 0
    /\ depth' = 0

CaseDone ==
    /\ idx' = idx + 1
    /\ pc' = "case"
    /\ inflight' = NoRequest
    /\ yaml_block' = ""
    /\ langchain_metrics' = PyNone
    /\ retry_after' = 0
    /\ depth' = 0

\* ------------------------------------------------------------------ main
\* the environment variables main() reads, and the environments considered
EnvVars == {"OPENAI_API_KEY", "OPENAI_ASSISTANT_ID", "RULE_GENERATOR_URL",
            "JUDGE_ASSISTANT_ID", "SERVICE_API_KEY", "OPENAI_JUDGE_ID"}
Environments == {EnvVars, {}}

\* os.getenv(name) / os.getenv("RULE_GENERATOR_URL", default)
GetEnv(env, name) ==
    IF name \in env THEN "set"
    ELSE IF name = "RULE_GENERATOR_URL" THEN "default" ELSE "None"

\* the config dict literal of main()
BuildConfig(v, env) ==
    IF v = "main"
    THEN [key \in {"OPENAI_API_KEY", "OPENAI_ASSISTANT_ID", "RULE_GENERATOR_URL",
                   "JUDGE_ASSISTANT_ID", "SERVICE_API_KEY"} |-> GetEnv(env, key)]
    ELSE [key \in {"SERVICE_API_KEY", "OPENAI_ASSISTANT_ID", "OPENAI_JUDGE_ID",
                   "RULE_GENERATOR_URL"} |-> GetEnv(env, key)]

\* benchmark-ai main(): the keys whose value must be truthy
required_configs == {"SERVICE_API_KEY", "OPENAI_ASSISTANT_ID"}

\* config.get(key) is falsy
Falsy(cfg, key) == key \notin DOMAIN cfg \/ cfg[key] = "None"

NoSummary == [stage |-> "none"]

\* sum(r.get("overall_score", 0) for r in results)
RECURSIVE SumScores(_)
SumScores(rs) ==
    IF rs = <<>> THEN Fin(0)
    ELSE FAdd(SumScores(SubSeq(rs, 1, Len(rs) - 1)),
              DictGet(rs[Len(rs)], "overall_score", Fin(0)))

total_cases(rs) == Len(rs)

\* a count that takes every entry for a success
successful_cases_counts_all(rs) == Len(rs)

successful_cases(rs) ==
    Cardinality({i \in 1..Len(rs) : DictGet(rs[i], "metrics", PyNone) # PyNone})

\* an average taken over the successful cases only
avg_score_over_successes(rs) ==
    IF successful_cases(rs) = 0 THEN Raise("ZeroDivisionError")
    ELSE Ok([num |-> SumScores(rs), den |-> successful_cases(rs)])

\* sum(...) / total_cases, kept as the exact quotient num / den
avg_score(rs) ==
    IF total_cases(rs) = 0 THEN Raise("ZeroDivisionError")
    ELSE Ok([num |-> SumScores(rs), den |-> total_cases(rs)])

Configs == {FullConfig, [key \in {"RULE_GENERATOR_URL", "SERVICE_API_KEY"} |-> "set"]}

Init ==
    /\ variant \in {"main", "bench"}
    /\ test_cases \in CaseLists
    /\ results = <<>>
    /\ idx = 1
    /\ inflight = NoRequest
    /\ response = NoResponse
    /\ yaml_block = ""
    /\ langchain_metrics = PyNone
    /\ retry_after = 0
    /\ depth = 0
    /\ sent = <<>>
    /\ slept = <<>>
    /\ fn = FnIdle
    /\ summary = NoSummary
    /\ updater = NoUpdater
    /\ app = NoApp
    /\ \/ /\ caller = "main"
          /\ config = EmptyDict
          /\ pc = "main"
       \/ /\ caller = "other"
          /\ config \in Configs
          /\ pc = "start"

\* main() up to the call of run_evaluation: build the config from the
\* environment; the benchmark-ai main() also validates two of its values
MainConfig ==
    /\ pc = "main"
    /\ \E env \in Environments :
         /\ config' = BuildConfig(variant, env)
         /\ pc' = IF variant = "bench"
                     /\ \E key \in required_configs : Falsy(BuildConfig(variant, env), key)
                  THEN "raised"
                  ELSE "start"
    /\ UNCHANGED <<variant, test_cases, results, idx, inflight, response, yaml_block,
                   langchain_metrics, retry_after, depth, sent, slept, fn, caller, summary, updater, app>>

\* main() after run_evaluation returned: the summary it prints
MainSummary ==
    /\ pc = "done"
    /\ caller = "main"
    /\ IF avg_score(results).exc # "none"
       THEN /\ pc' = "raised"
            /\ summary' = summary
       ELSE /\ pc' = "summary"
            /\ summary' = [stage |-> "printed",
                           total_cases |-> total_cases(results),
                           successful_cases |-> successful_cases(results),
                           avg_score |-> avg_score(results).val]
    /\ UNCHANGED <<variant, config, test_cases, results, idx, inflight, response, yaml_block,
                   langchain_metrics, retry_after, depth, sent, slept, fn, caller, updater, app>>

\* the configuration check at the top of run_evaluation
Start ==
    /\ pc = "start"
    /\ pc' = IF required_config \subseteq DOMAIN config THEN "case" ELSE "raised"
    /\ UNCHANGED <<variant, config, test_cases, results, idx, inflight, response, yaml_block,
                   langchain_metrics, retry_after, depth, sent, slept, fn, caller, summary, updater, app>>

\* a handler that records the malformed case under no query and goes on
MissingQueryRecorded ==
    /\ pc = "case"
    /\ idx <= Len(test_cases)
    /\ "query" \notin DOMAIN test_cases[idx]
    /\ results' = Append(results, [query |-> PyNone, error |-> "'query'",
                                    metrics |-> PyNone, overall_score |-> Fin(0)])
    /\ idx' = idx + 1
    /\ UNCHANGED <<variant, config, test_cases, pc, inflight, response, yaml_block,
                   langchain_metrics, retry_after, depth, sent, slept, fn, caller,
                   summary, updater, app>>

\* the loop body on a record without "query": case["query"] raises KeyError in
\* the try, the except branch evaluates case["query"] again while it builds
\* the failure entry, and that KeyError leaves run_evaluation
MissingQuery ==
    /\ pc = "case"
    /\ idx <= Len(test_cases)
    /\ "query" \notin DOMAIN test_cases[idx]
    /\ pc' = "raised"
    /\ UNCHANGED <<variant, config, test_cases, results, idx, inflight, response,
                   yaml_block, langchain_metrics, retry_after, depth, sent, slept, fn,
                   caller, summary, updater, app>>

\* generate_rule posts the query of the current case
SendRules ==
    /\ pc = "case"
    /\ idx <= Len(test_cases)
    /\ "query" \in DOMAIN test_cases[idx]
    /\ inflight' = RulesRequest(test_cases[idx].query)
    /\ sent' = <<[case |-> idx, request |-> RulesRequest(test_cases[idx].query)]>>
    /\ slept' = <<>>
    /\ response' = NoResponse
    /\ pc' = "rules_wait"
    /\ UNCHANGED <<variant, config, test_cases, results, idx, yaml_block,
                   langchain_metrics, retry_after, depth, fn, caller, summary, updater, app>>

\* the response of the Rule Generator arrives; generate_rule returns, raises or
\* (bench) goes to sleep; in main, evaluate_rule then computes the local metrics
RecvRules ==
    /\ pc = "rules_wait"
    /\ \E resp \in RulesResponses, ev \in Evaluators :
         /\ (variant = "bench" /\ resp.status = 429) => depth < MaxRetries
         /\ response' = resp
         /\ LET g == generate_rule(variant, resp)
                lm == calculate_langchain_metrics(g.val, test_cases[idx].expected_rule, ev)
            IN CASE g.kind = "raise" ->
                      /\ CaseFailed(g.error)
                      /\ UNCHANGED <<variant, config, test_cases, sent, slept, fn, caller, summary, updater, app>>
                 [] g.kind = "retry" ->
                      /\ pc' = "sleep"
                      /\ retry_after' = g.seconds
                      /\ inflight' = NoRequest
                      /\ UNCHANGED <<variant, config, test_cases, results, idx, yaml_block,
                                     langchain_metrics, depth, sent, slept, fn, caller, summary, updater, app>>
                 [] g.kind = "return" /\ variant = "main" /\ lm.exc # "none" ->
                      /\ CaseFailed("argument of type 'NoneType' is not iterable")
                      /\ UNCHANGED <<variant, config, test_cases, sent, slept, fn, caller, summary, updater, app>>
                 [] OTHER ->
                      /\ yaml_block' = g.val
                      /\ langchain_metrics' = IF variant = "main" THEN lm.val ELSE PyNone
                      /\ pc' = "judge"
                      /\ inflight' = NoRequest
                      /\ depth' = 0
                      /\ UNCHANGED <<variant, config, test_cases, results, idx,
                                     retry_after, sent, slept, fn, caller, summary, updater, app>>

\* bench: time.sleep(retry_after) ends and generate_rule calls itself
Sleep ==
    /\ pc = "sleep"
    /\ slept' = Append(slept, retry_after)
    /\ retry_after' = 0
    /\ depth' = depth + 1
    /\ response' = NoResponse
    /\ inflight' = RulesRequest(test_cases[idx].query)
    /\ sent' = Append(sent, [case |-> idx, request |-> RulesRequest(test_cases[idx].query)])
    /\ pc' = "rules_wait"
    /\ UNCHANGED <<variant, config, test_cases, results, idx, yaml_block,
                   langchain_metrics, fn, caller, summary, updater, app>>

\* get_judge_comparison posts the two rules
SendJudge ==
    /\ pc = "judge"
    /\ inflight' = JudgeRequest(yaml_block, test_cases[idx].expected_rule)
    /\ sent' = Append(sent, [case |-> idx,
                             request |-> JudgeRequest(yaml_block, test_cases[idx].expected_rule)])
    /\ response' = NoResponse
    /\ pc' = "judge_wait"
    /\ UNCHANGED <<variant, config, test_cases, results, idx, yaml_block,
                   langchain_metrics, retry_after, depth, slept, fn, caller, summary, updater, app>>

\* the response of the Judge arrives; the rest of evaluate_rule and of the
\* loop body runs
RecvJudge ==
    /\ pc = "judge_wait"
    /\ \E resp \in JudgeResponses :
         /\ response' = resp
         /\ LET j == get_judge_comparison(resp)
                er == IF variant = "main"
                      THEN evaluate_rule_main(langchain_metrics, j.val)
                      ELSE evaluate_rule_bench(j.val)
            IN CASE j.kind = "raise" -> CaseFailed(j.error)
                 [] er.kind = "raise" -> CaseFailed(er.error)
                 [] OTHER ->
                      /\ results' = Append(results,
                            SuccessEntry(variant, test_cases[idx], yaml_block, er.val))
                      /\ CaseDone
    /\ UNCHANGED <<variant, config, test_cases, sent, slept, fn, caller, summary, updater, app>>

\* the loop is over: run_evaluation returns results
ReturnResults ==
    /\ pc = "case"
    /\ idx > Len(test_cases)
    /\ pc' = "done"
    /\ UNCHANGED <<variant, config, test_cases, results, idx, inflight, response, yaml_block,
                   langchain_metrics, retry_after, depth, sent, slept, fn, caller, summary, updater, app>>

Next ==
    \/ MainConfig
    \/ Start
    \/ MissingQuery
    \/ SendRules
    \/ RecvRules
    \/ Sleep
    \/ SendJudge
    \/ RecvJudge
    \/ ReturnResults
    \/ MainSummary

Spec == Init /\ [][Next]_vars

\* ------------------------------------------- the scoring functions alone
AllRules == {RULE_FULL_A, RULE_MIN_A, RULE_MIN_B, RULE_EMPTY_TITLE, RULE_BAD,
             RULE_EMPTY, RULE_SCALAR, RULE_LIST}

FnEvaluators ==
    {[ok |-> TRUE, dist |-> Scale \div 4], [ok |-> TRUE, dist |-> Scale],
     [ok |-> FALSE, dist |-> 0]}

JudgmentTexts ==
    {TXT_GOOD, TXT_GOOD_CAP, TXT_EXCELLENT_UP, TXT_FAIR, TXT_POOR, TXT_BAD,
     TXT_GIBBERISH, TXT_OBJ_09, TXT_OBJ_STR075, TXT_OBJ_HIGH, TXT_OBJ_NULL,
     TXT_OBJ_NOSCORE, TXT_OBJ_7, TXT_OBJ_NEG, TXT_OBJ_NAN, TXT_OBJ_STRNAN,
     TXT_OBJ_1E400, TXT_OBJ_BIGINT, TXT_JSON_STR_GOOD, TXT_JSON_LIST,
     TXT_JSON_NUM, TXT_JSON_NULL}

AllJudgments ==
    {PyStr(txt) : txt \in JudgmentTexts}
    \cup {PyDict(ScoreDict(PyFloat(Fin(Nine10)))), PyDict(ScoreDict(PyStr("high"))),
          PyDict(EmptyDict), PyFloat(Fin(Nine10)), PyFloat(NaN), PyInt(2),
          PyBigInt, PyNone, PyList(<<PyFloat(Fin(Nine10))>>)}

NotCalled == [exc |-> "not called"]

InitFn ==
    /\ variant = "main"
    /\ config = FullConfig
    /\ test_cases = <<>>
    /\ results = <<>>
    /\ idx = 1
    /\ pc = "idle"
    /\ inflight = NoRequest
    /\ response = NoResponse
    /\ yaml_block = ""
    /\ langchain_metrics = PyNone
    /\ retry_after = 0
    /\ depth = 0
    /\ sent = <<>>
    /\ slept = <<>>
    /\ caller = "other"
    /\ summary = NoSummary
    /\ updater = NoUpdater
    /\ app = NoApp
    /\ \E g \in AllRules, e \in AllRules, ev \in FnEvaluators, j \in AllJudgments :
         fn = [stage |-> "args", generated_rule |-> g, expected_rule |-> e,
               ev |-> ev, llm_judgment |-> j, lm |-> NotCalled,
               combined_metrics |-> EmptyDict, cs |-> NotCalled]

\* evaluate_rule, line 102: langchain_metrics = calculate_langchain_metrics(...)
CallLangchainMetrics ==
    /\ fn.stage = "args"
    /\ fn' = [fn EXCEPT !.stage = "metrics",
                        !.lm = calculate_langchain_metrics(fn.generated_rule,
                                                           fn.expected_rule, fn.ev)]
    /\ UNCHANGED <<variant, config, test_cases, results, idx, pc, inflight, response, yaml_block,
                   langchain_metrics, retry_after, depth, sent, slept, caller, summary, updater, app>>

\* evaluate_rule, lines 108-114: merge the judgment in and compute the score
CallCombinedScore ==
    /\ fn.stage = "metrics"
    /\ fn.lm.exc = "none"
    /\ fn.lm.val.t = "dict"
    /\ LET combined_metrics ==
               [key \in DOMAIN fn.lm.val.d \cup {"llm_judgment"} |->
                   IF key = "llm_judgment" THEN fn.llm_judgment ELSE fn.lm.val.d[key]]
       IN fn' = [fn EXCEPT !.stage = "scored",
                           !.combined_metrics = combined_metrics,
                           !.cs = calculate_combined_score(combined_metrics)]
    /\ UNCHANGED <<variant, config, test_cases, results, idx, pc, inflight, response, yaml_block,
                   langchain_metrics, retry_after, depth, sent, slept, caller, summary, updater, app>>

\* the metric sets a direct call of calculate_combined_score is given: the
\* keys kept from the five computed ones
MetricKeySets ==
    {{"valid_yaml", "has_required_fields", "detection_logic_similarity",
      "metadata_completeness"},
     {"valid_yaml", "llm_judgment"}, {"llm_judgment"}, {}}

\* calculate_combined_score called on a metric set that lacks some metrics
CallCombinedScoreOnSubset ==
    /\ fn.stage = "metrics"
    /\ fn.lm.exc = "none"
    /\ fn.lm.val.t = "dict"
    /\ \E keys \in MetricKeySets :
         LET metrics == [key \in keys |->
                            IF key = "llm_judgment" THEN fn.llm_judgment
                            ELSE fn.lm.val.d[key]]
         IN fn' = [fn EXCEPT !.stage = "subset",
                             !.combined_metrics = metrics,
                             !.cs = calculate_combined_score(metrics)]
    /\ UNCHANGED <<variant, config, test_cases, results, idx, pc, inflight, response, yaml_block,
                   langchain_metrics, retry_after, depth, sent, slept, caller, summary, updater, app>>

NextFn ==
    \/ CallLangchainMetrics
    \/ CallCombinedScore
    \/ CallCombinedScoreOnSubset

SpecFn == InitFn /\ [][NextFn]_vars

\* ------------------------------------------------------ SigmaRuleUpdater
\* src/sigmaiq/utils/sigma/rule_updater.py.  The rule directory is described
\* by the release tag version.txt names ("" without the file) and by the
\* presence of the directories rules and rules-emerging-threats.
PACKAGE_NAME_URIS ==
    ("core" :> "sigma_core.zip") @@ ("core+" :> "sigma_core+.zip")
    @@ ("core++" :> "sigma_core++.zip")
    @@ ("emerging_threats" :> "sigma_emerging_threats_addon.zip")
    @@ ("all" :> "sigma_all_rules.zip")

ReleaseTags == {"r1", "r2"}
PackageArgs == {"core", "emerging_threats", "all", "community"}
VersionArgs == {"", "r1"}

\* what the network answers during one call: the tag the latest release
\* redirects to (or an error), and whether each download succeeds
Networks ==
    [latest : ReleaseTags \cup {"error"}, download_ok : BOOLEAN, et_ok : BOOLEAN]

LatestRequest == [url |-> "releases/latest", tag |-> "", file |-> ""]
DownloadRequest(tag, package_name) ==
    [url |-> "releases/download", tag |-> tag, file |-> PACKAGE_NAME_URIS[package_name]]

NoCall == [method |-> "none", result |-> "none", requests |-> <<>>]

\* what a call found: the directories, the tag and the outcome of the call before
Snapshot(u) ==
    [rules |-> u.rules, rules_et |-> u.rules_et, latest_tag |-> u.latest_tag,
     result |-> u.last.result]

\* a _needs_update that reads the installed tag from version.txt again
_needs_update_reads_disk(u) ==
    IF u.version_txt = "" THEN TRUE ELSE u.latest_tag # u.version_txt

_needs_update(u) ==
    IF u.installed_tag = "" THEN TRUE ELSE u.latest_tag # u.installed_tag

\* zf.extractall(self.rule_dir): a release package carries version.txt and
\* the rule directories of its kind
_extract_sigma_release(u, package_name) ==
    [u EXCEPT !.version_txt = u.latest_tag,
              !.rules = @ \/ package_name \in {"core", "core+", "core++", "all"},
              !.rules_et = @ \/ package_name \in {"emerging_threats", "all"}]

\* a download that removes the old directories only once the package is there
_download_sigma_release_fetches_first(u, package_name, overwrite, ok) ==
    LET removed == IF overwrite
                   THEN [u EXCEPT !.rules = FALSE, !.rules_et = FALSE]
                   ELSE u
    IN IF package_name \notin DOMAIN PACKAGE_NAME_URIS
       THEN [u |-> u, exc |-> "ValueError", requests |-> <<>>]
       ELSE IF ~ok
       THEN [u |-> u, exc |-> "Exception",
             requests |-> <<DownloadRequest(u.latest_tag, package_name)>>]
       ELSE [u |-> _extract_sigma_release(removed, package_name), exc |-> "none",
             requests |-> <<DownloadRequest(u.latest_tag, package_name)>>]

_download_sigma_release(u, package_name, overwrite, ok) ==
    LET removed == IF overwrite
                   THEN [u EXCEPT !.rules = FALSE, !.rules_et = FALSE]
                   ELSE u
    IN IF package_name \notin DOMAIN PACKAGE_NAME_URIS
       THEN [u |-> removed, exc |-> "ValueError", requests |-> <<>>]
       ELSE IF ~ok
       THEN [u |-> removed, exc |-> "Exception",
             requests |-> <<DownloadRequest(u.latest_tag, package_name)>>]
       ELSE [u |-> _extract_sigma_release(removed, package_name), exc |-> "none",
             requests |-> <<DownloadRequest(u.latest_tag, package_name)>>]

\* update_sigma_rules from the tag assignment on (lines 75-93)
UpdateWithTag(u, force, package_name, emerging_threats, requests, net) ==
    IF ~_needs_update(u) /\ ~force
    THEN [u |-> u, result |-> "up_to_date", requests |-> requests]
    ELSE LET d == _download_sigma_release(u, package_name, TRUE, net.download_ok) IN
         IF d.exc # "none"
         THEN [u |-> d.u, result |-> d.exc, requests |-> requests \o d.requests]
         ELSE IF emerging_threats /\ package_name \notin {"emerging_threats", "all"}
         THEN LET e == _download_sigma_release(d.u, "emerging_threats", FALSE, net.et_ok) IN
              [u |-> e.u, result |-> IF e.exc # "none" THEN e.exc ELSE "updated",
               requests |-> (requests \o d.requests) \o e.requests]
         ELSE [u |-> d.u, result |-> "updated", requests |-> requests \o d.requests]

\* an update that leaves the validation of the package to the download
update_sigma_rules_validates_late(u, force, package_name, emerging_threats, version, net) ==
    IF version # ""
    THEN UpdateWithTag([u EXCEPT !.latest_tag = version], force, package_name,
                       emerging_threats, <<>>, net)
    ELSE IF net.latest = "error"
    THEN [u |-> u, result |-> "Exception", requests |-> <<LatestRequest>>]
    ELSE UpdateWithTag([u EXCEPT !.latest_tag = net.latest], force, package_name,
                       emerging_threats, <<LatestRequest>>, net)

update_sigma_rules(u, force, package_name, emerging_threats, version, net) ==
    IF package_name \notin DOMAIN PACKAGE_NAME_URIS
    THEN [u |-> u, result |-> "ValueError", requests |-> <<>>]
    ELSE IF version # ""
    THEN UpdateWithTag([u EXCEPT !.latest_tag = version], force, package_name,
                       emerging_threats, <<>>, net)
    ELSE IF net.latest = "error"
    THEN [u |-> u, result |-> "Exception", requests |-> <<LatestRequest>>]
    ELSE UpdateWithTag([u EXCEPT !.latest_tag = net.latest], force, package_name,
                       emerging_threats, <<LatestRequest>>, net)

\* SigmaRuleUpdater(rule_dir): installed_tag is read from version.txt,
\* latest_tag from the latest release
InitUpdater ==
    /\ variant = "main"
    /\ config = FullConfig
    /\ test_cases = <<>>
    /\ results = <<>>
    /\ idx = 1
    /\ pc = "idle"
    /\ inflight = NoRequest
    /\ response = NoResponse
    /\ yaml_block = ""
    /\ langchain_metrics = PyNone
    /\ retry_after = 0
    /\ depth = 0
    /\ sent = <<>>
    /\ slept = <<>>
    /\ fn = FnIdle
    /\ caller = "other"
    /\ summary = NoSummary
    /\ app = NoApp
    /\ \E version_txt \in ReleaseTags \cup {""}, latest \in ReleaseTags,
          rules \in BOOLEAN, rules_et \in BOOLEAN :
         updater = [stage |-> "ready", installed_tag |-> version_txt,
                    latest_tag |-> latest, version_txt |-> version_txt,
                    rules |-> rules, rules_et |-> rules_et, calls |-> 0,
                    last |-> NoCall]

\* one call of updater.update_sigma_rules(...)
UpdateSigmaRules ==
    /\ updater.stage = "ready"
    /\ updater.calls < MaxCalls
    /\ \E force \in BOOLEAN, package_name \in PackageArgs, emerging_threats \in BOOLEAN,
          version \in VersionArgs, net \in Networks :
         LET r == update_sigma_rules(updater, force, package_name, emerging_threats,
                                     version, net)
         IN updater' = [r.u EXCEPT !.calls = @ + 1,
                                   !.last = [method |-> "update_sigma_rules",
                                             before |-> Snapshot(updater),
                                             force |-> force,
                                             package_name |-> package_name,
                                             result |-> r.result,
                                             requests |-> r.requests]]
    /\ UNCHANGED <<variant, config, test_cases, results, idx, pc, inflight, response,
                   yaml_block, langchain_metrics, retry_after, depth, sent, slept, fn,
                   caller, summary, app>>

\* one call of updater._download_sigma_release(package_name, overwrite)
DownloadSigmaRelease ==
    /\ updater.stage = "ready"
    /\ updater.calls < MaxCalls
    /\ \E package_name \in PackageArgs, overwrite \in BOOLEAN, ok \in BOOLEAN :
         LET r == _download_sigma_release(updater, package_name, overwrite, ok)
         IN updater' = [r.u EXCEPT !.calls = @ + 1,
                                   !.last = [method |-> "_download_sigma_release",
                                             before |-> Snapshot(updater),
                                             overwrite |-> overwrite,
                                             package_name |-> package_name,
                                             result |-> IF r.exc = "none" THEN "downloaded"
                                                        ELSE r.exc,
                                             requests |-> r.requests]]
    /\ UNCHANGED <<variant, config, test_cases, results, idx, pc, inflight, response,
                   yaml_block, langchain_metrics, retry_after, depth, sent, slept, fn,
                   caller, summary, app>>

NextUpdater ==
    \/ UpdateSigmaRules
    \/ DownloadSigmaRelease

SpecUpdater == InitUpdater /\ [][NextUpdater]_vars

\* ------------------------------------------------- the Rule Generator service
\* src/benchmark-ai/rule_generator/app.py: one request to a guarded endpoint,
\* from the rate limiter to the response, with the assistant run it starts.
GuardedEndpoints ==
    {"/api/v1/rules", "/api/v1/judge", "/api/v1/assess", "/api/v1/summarize-references"}

\* values of the Authorization header ("absent": no header)
AUTH_ABSENT == "absent"
AUTH_BASIC == "Basic k"
AUTH_KEY == "Bearer k"
AUTH_WRONG == "Bearer wrong"
AUTH_KEY_EXTRA == "Bearer k extra"
AUTH_NON_ASCII == "Bearer <e acute>"

AuthHeaders == {AUTH_ABSENT, AUTH_BASIC, AUTH_KEY, AUTH_WRONG,
                AUTH_KEY_EXTRA, AUTH_NON_ASCII}

\* SERVICE_API_KEY = os.getenv('SERVICE_API_KEY'), read when the module is
\* imported, before load_dotenv() runs
ServiceKeys == {"k", "None"}

\* the JSON body: absent or empty, lacking a required field, with a field
\* over the length limit of the endpoint, or acceptable
Bodies == {"none", "missing_field", "too_long", "ok"}

\* auth_header.startswith('Bearer ')
StartsWithBearer(h) == h \in {AUTH_KEY, AUTH_WRONG, AUTH_KEY_EXTRA, AUTH_NON_ASCII}

\* auth_header.split(' ')[1]
SecondWord(h) ==
    CASE h = AUTH_KEY -> "k"
      [] h = AUTH_WRONG -> "wrong"
      [] h = AUTH_KEY_EXTRA -> "k"
      [] h = AUTH_NON_ASCII -> "<e acute>"
      [] OTHER -> "k"

\* secrets.compare_digest(a, b): TypeError unless both are ASCII strings
compare_digest(a, b) ==
    IF b = "None" \/ a = "<e acute>" THEN Raise("TypeError") ELSE Ok(a = b)

\* the decorator: 401, an escaping exception (500), or the call f() ("pass")
require_api_key(auth_header, key) ==
    IF auth_header = AUTH_ABSENT \/ ~StartsWithBearer(auth_header) THEN "401"
    ELSE IF compare_digest(SecondWord(auth_header), key).exc # "none" THEN "500"
    ELSE IF ~compare_digest(SecondWord(auth_header), key).val THEN "401"
    ELSE "pass"

\* the checks of the handler body ahead of the assistant call
ValidateBody(endpoint, body) ==
    IF body \in {"none", "missing_field"} THEN "400"
    ELSE IF body = "too_long" /\ endpoint # "/api/v1/summarize-references" THEN "400"
    ELSE "pass"

RunStatuses == {"queued", "in_progress", "completed", "failed", "cancelled", "expired"}
EndedStatuses == {"completed", "failed", "cancelled", "expired"}

\* a loop that gives up on every ended run
wait_for_assistant_completion_ends(status) ==
    IF status \in EndedStatuses THEN "break" ELSE "sleep"

\* one iteration of the polling loop, given the status retrieved
wait_for_assistant_completion(status) ==
    IF status = "completed" THEN "break" ELSE "sleep"

Respond(a, status) == [a EXCEPT !.stage = "responded", !.response = status]

InitApp ==
    /\ variant = "bench"
    /\ config = FullConfig
    /\ test_cases = <<>>
    /\ results = <<>>
    /\ idx = 1
    /\ pc = "idle"
    /\ inflight = NoRequest
    /\ response = NoResponse
    /\ yaml_block = ""
    /\ langchain_metrics = PyNone
    /\ retry_after = 0
    /\ depth = 0
    /\ sent = <<>>
    /\ slept = <<>>
    /\ fn = FnIdle
    /\ caller = "other"
    /\ summary = NoSummary
    /\ updater = NoUpdater
    /\ \E key \in ServiceKeys, endpoint \in GuardedEndpoints, auth \in AuthHeaders,
          body \in Bodies, limited \in BOOLEAN :
         app = [stage |-> "received", key |-> key,
                request |-> [endpoint |-> endpoint, auth |-> auth, body |-> body,
                             limited |-> limited],
                handler_ran |-> FALSE, assistant_calls |-> 0, run_status |-> "none",
                polled |-> "none", polls |-> 0, response |-> 0]

\* the request goes through the rate limiter, require_api_key and the handler
\* body up to the creation of the assistant run
Dispatch ==
    /\ app.stage = "received"
    /\ \E api_ok \in BOOLEAN :
         app' =
           IF app.request.limited THEN Respond(app, 429)
           ELSE IF require_api_key(app.request.auth, app.key) = "401" THEN Respond(app, 401)
           ELSE IF require_api_key(app.request.auth, app.key) = "500" THEN Respond(app, 500)
           ELSE IF ValidateBody(app.request.endpoint, app.request.body) = "400"
           THEN Respond([app EXCEPT !.handler_ran = TRUE], 400)
           ELSE IF ~api_ok
           THEN Respond([app EXCEPT !.handler_ran = TRUE, !.assistant_calls = 1], 500)
           ELSE [app EXCEPT !.handler_ran = TRUE, !.assistant_calls = 1,
                            !.stage = "polling", !.run_status = "queued"]
    /\ UNCHANGED <<variant, config, test_cases, results, idx, pc, inflight, response,
                   yaml_block, langchain_metrics, retry_after, depth, sent, slept, fn,
                   caller, summary, updater>>

\* the assistant run moves on at the provider; an ended run stays as it is
RunProgress ==
    /\ app.stage = "polling"
    /\ app.run_status \in {"queued", "in_progress"}
    /\ \E next \in RunStatuses \ {"queued", app.run_status} :
         app' = [app EXCEPT !.run_status = next]
    /\ UNCHANGED <<variant, config, test_cases, results, idx, pc, inflight, response,
                   yaml_block, langchain_metrics, retry_after, depth, sent, slept, fn,
                   caller, summary, updater>>

\* one runs.retrieve of the loop: it raises (the handler answers 500), or
\* gives the status; on "break" the handler reads the messages and answers
Poll ==
    /\ app.stage = "polling"
    /\ app.polls < MaxPolls
    /\ \E retrieved \in BOOLEAN, text_ok \in BOOLEAN :
         app' =
           IF ~retrieved
           THEN Respond([app EXCEPT !.polls = @ + 1, !.polled = "error"], 500)
           ELSE IF wait_for_assistant_completion(app.run_status) = "break"
           THEN Respond([app EXCEPT !.polls = @ + 1, !.polled = app.run_status],
                        IF text_ok THEN 200 ELSE 500)
           ELSE [app EXCEPT !.polls = @ + 1, !.polled = app.run_status]
    /\ UNCHANGED <<variant, config, test_cases, results, idx, pc, inflight, response,
                   yaml_block, langchain_metrics, retry_after, depth, sent, slept, fn,
                   caller, summary, updater>>

NextApp ==
    \/ Dispatch
    \/ RunProgress
    \/ Poll

SpecApp == InitApp /\ [][NextApp]_vars

\* ================================================================ claims
LastEntry == results[Len(results)]
LastRequest == sent[Len(sent)].request
IsFailure(entry) == "error" \in DOMAIN entry
InUnit(x) == x.k = "fin" /\ 0 <= x.v /\ x.v <= ScoreUnit
Running == pc \in {"case", "rules_wait", "sleep", "judge", "judge_wait"}
\* a case has just been recorded; sent and response still describe it
CaseJustEnded ==
    /\ pc \in {"case", "done"}
    /\ Len(results) >= 1
    /\ sent # <<>>
    /\ sent[1].case = Len(results)

\* C1: run_evaluation returns a ledger with exactly one entry per test case,
\* whatever the collaborators answered; while it runs, every case before the
\* current one has its entry, so a failed case never stops the later ones.
C1_LedgerComplete ==
    /\ pc = "done" => Len(results) = Len(test_cases)
    /\ Running => (Len(results) = idx - 1 /\ idx <= Len(test_cases) + 1)

C1_Witness ==
    /\ pc = "done"
    /\ Len(results) = MaxCases
    /\ IsFailure(results[1])
    /\ ~IsFailure(results[MaxCases])

\* C2: every ledger entry has an overall_score in [0, 1].
C2_ScoreInUnitInterval ==
    \A i \in 1..Len(results) : InUnit(results[i].overall_score)

\* C3: a candidate that is not valid YAML, judged successfully, gives an entry
\* without error whose metrics are the four zeroes.
C3_BadYamlKeepsMetrics ==
    ( /\ variant = "main"
      /\ CaseJustEnded
      /\ LastRequest.endpoint = "/api/v1/judge"
      /\ YamlLoad(LastRequest.body.rule1).exc # "none"
      /\ response.status = 200
      /\ response.has_field )
    => /\ ~IsFailure(LastEntry)
       /\ LastEntry.metrics.t = "dict"
       /\ \A key \in DOMAIN ZeroMetrics : LastEntry.metrics.d[key] = PyFloat(Fin(0))

\* C4: a bare quality word, in any letter case, is scored by the table
\* excellent 1.0, good 0.75, fair 0.5, poor 0.25, bad 0.0.
C4_QualityWordTable ==
    LET table == [excellent |-> Fin(Scale), good |-> Fin((3 * Scale) \div 4),
                  fair |-> Fin(Scale \div 2), poor |-> Fin(Scale \div 4),
                  bad |-> Fin(0)]
    IN ( /\ fn.stage = "scored"
         /\ fn.llm_judgment.t = "str"
         /\ lower(fn.llm_judgment.s) \in DOMAIN table )
       => /\ fn.cs.exc = "none"
          /\ fn.cs.llm_score = table[lower(fn.llm_judgment.s)]

\* C5: a judgment that is a mapping is scored by its numeric score field, and
\* by 0.5 when the field is missing or cannot be converted.
C5_MappingScoreUsed ==
    (fn.stage = "scored" /\ fn.llm_judgment.t = "dict")
    => /\ fn.cs.exc = "none"
       /\ fn.cs.llm_score =
             IF "score" \in DOMAIN fn.llm_judgment.d
                /\ float(fn.llm_judgment.d["score"]).exc = "none"
             THEN float(fn.llm_judgment.d["score"]).val
             ELSE Fin(Half)

\* C6: a judgment string that parses as a JSON object is scored by the
\* object's score field converted to a number, and by 0.5 when the object has
\* no score field or the field cannot be converted.
C6_JsonObjectString ==
    ( /\ fn.stage = "scored"
      /\ fn.llm_judgment.t = "str"
      /\ JsonLoads(fn.llm_judgment.s).exc = "none"
      /\ JsonLoads(fn.llm_judgment.s).val.t = "dict" )
    => LET obj == JsonLoads(fn.llm_judgment.s).val.d IN
       /\ fn.cs.exc = "none"
       /\ fn.cs.llm_score =
             IF "score" \in DOMAIN obj /\ float(obj["score"]).exc = "none"
             THEN float(obj["score"]).val
             ELSE Fin(Half)

\* a judgment in none of the formats the score extraction recognises
C7_Unrecognised(j) ==
    \/ j.t \in {"none", "list"}
    \/ /\ j.t = "str"
       /\ JsonLoads(j.s).exc # "none"
       /\ lower(j.s) \notin {"excellent", "good", "fair", "poor", "bad"}
    \/ /\ j.t = "str"
       /\ JsonLoads(j.s).exc = "none"
       /\ JsonLoads(j.s).val.t # "dict"

\* C7: calculate_combined_score never raises, and a judgment in no recognised
\* format (a string that is neither JSON nor a quality word, a JSON string
\* that is not an object, null, a list) is scored 0.5.
C7_NeverRaisesDefaultHalf ==
    fn.stage = "scored"
    => /\ fn.cs.exc = "none"
       /\ C7_Unrecognised(fn.llm_judgment) => fn.cs.llm_score = Fin(Half)

\* C8: when candidate and expected rule have the same detection section (and
\* the evaluator runs), detection_logic_similarity is 1.0.
C8_IdenticalDetectionIsOne ==
    ( /\ fn.stage \in {"metrics", "scored"}
      /\ fn.ev.ok
      /\ YamlLoad(fn.generated_rule).exc = "none"
      /\ YamlLoad(fn.expected_rule).exc = "none"
      /\ DetectionString(YamlLoad(fn.generated_rule).val).exc = "none"
      /\ DetectionString(YamlLoad(fn.expected_rule).val).exc = "none"
      /\ DetectionString(YamlLoad(fn.generated_rule).val)
            = DetectionString(YamlLoad(fn.expected_rule).val) )
    => /\ fn.lm.exc = "none"
       /\ fn.lm.val.t = "dict"
       /\ fn.lm.val.d["detection_logic_similarity"] = PyFloat(Fin(Scale))

\* C9: a 429 from the Judge does not fail the case: no entry is appended, the
\* call sleeps and then posts the same judge request again.
C9_JudgeRetriesOn429 ==
    [][ (pc = "judge_wait" /\ response'.status = 429)
        => (results' = results /\ idx' = idx /\ pc' = "sleep") ]_vars

\* C10: a 429 from the Rule Generator makes generate_rule sleep Retry-After
\* seconds (60 without the header) and post the same request again; the entry
\* recorded once the judge has answered depends only on the rule returned and
\* on the judge's answer, not on the retries.
C10_GeneratorRetriesOn429 ==
    [][ /\ ( /\ pc = "rules_wait"
             /\ response'.status = 429
             /\ response'.header \in {"absent", "2"} )
           => /\ results' = results
              /\ idx' = idx
              /\ pc' = "sleep"
              /\ retry_after' = IF response'.header = "absent" THEN 60 ELSE 2
        /\ pc = "sleep"
           => /\ inflight' = sent[1].request
              /\ sent' = Append(sent, sent[1])
              /\ slept' = Append(slept, retry_after)
        /\ (pc = "judge_wait" /\ variant = "main" /\ ~IsFailure(results'[Len(results')]))
           => results'[Len(results')] =
                 SuccessEntry(variant, test_cases[idx], sent[Len(sent)].request.body.rule1,
                     evaluate_rule_main(langchain_metrics, response'.judgment).val)
      ]_vars

\* C11: in the benchmark-ai harness, as long as the Rule Generator answers 429
\* the generate call sleeps and retries and no error surfaces for the case: a
\* 429 never appends an entry and never advances the batch.
C11_RateLimitNeverSurfaces ==
    [][ (variant = "bench" /\ pc = "rules_wait" /\ response'.status = 429)
        => (results' = results /\ idx' = idx /\ pc' = "sleep") ]_vars

\* C12: a response of the Rule Generator or of the Judge that is neither 2xx
\* nor 429 ends the case at once: no further request is issued for it, and the
\* entry appended has error set, metrics None and overall_score 0.0.
C12_HttpErrorFailsCase ==
    [][ (pc \in {"rules_wait", "judge_wait"} /\ response'.status \notin {200, 429})
        => /\ Len(results') = Len(results) + 1
           /\ SubSeq(results', 1, Len(results)) = results
           /\ results'[Len(results')].query = test_cases[idx].query
           /\ IsFailure(results'[Len(results')])
           /\ results'[Len(results')].metrics = PyNone
           /\ results'[Len(results')].overall_score = Fin(0)
           /\ sent' = sent
           /\ inflight' = NoRequest
           /\ idx' = idx + 1
           /\ pc' = "case" ]_vars

C12_Witness ==
    /\ CaseJustEnded
    /\ response.endpoint = "/api/v1/judge"
    /\ response.status = 500
    /\ Len(sent) = 2
    /\ IsFailure(LastEntry)
    /\ pc = "done"

\* C13: every ledger entry is of exactly one of two kinds: metrics present
\* with the overall_score computed from them and no error field, or error set
\* with metrics None and overall_score 0.0; no entry has metrics and error.
C13_EntryIsSuccessOrFailure ==
    \A i \in 1..Len(results) :
        LET entry == results[i] IN
        IF IsFailure(entry)
        THEN /\ entry.metrics = PyNone
             /\ entry.overall_score = Fin(0)
        ELSE /\ entry.metrics.t = "dict"
             /\ calculate_combined_score(entry.metrics.d).exc = "none"
             /\ entry.overall_score = calculate_combined_score(entry.metrics.d).val

C13_Witness ==
    /\ pc = "done"
    /\ Len(results) = MaxCases
    /\ ~IsFailure(results[1])
    /\ results[1].metrics.t = "dict"
    /\ IsFailure(results[MaxCases])
    /\ results[MaxCases].metrics = PyNone

\* C14: at every point of run_evaluation the ledger holds the results of the
\* first k test cases in input order; a step either leaves the ledger alone
\* or appends one entry, the one of the next test case, and never changes,
\* removes or reorders an entry already appended.
C14_LedgerAppendOnlyInOrder ==
    [][ /\ \/ results' = results
           \/ /\ Len(results') = Len(results) + 1
              /\ SubSeq(results', 1, Len(results)) = results
        /\ Len(results') <= Len(test_cases)
        /\ \A i \in 1..Len(results') : results'[i].query = test_cases[i].query
      ]_vars

C14_Witness ==
    /\ pc = "done"
    /\ Len(results) = MaxCases
    /\ test_cases[1].query # test_cases[MaxCases].query
    /\ results[1].query = test_cases[1].query
    /\ FLt(results[1].overall_score, results[MaxCases].overall_score)

\* a required configuration value is absent: the key is missing, or main()
\* read it from an environment variable that is not set
ConfigMissing == \E key \in required_config : Falsy(config, key)

\* C15: when a required configuration value is absent, also when main() built
\* the configuration from unset environment variables, the run aborts with a
\* configuration error before any request is issued and before any entry is
\* appended.
C15_MissingConfigAborts ==
    (pc \notin {"main", "start"} /\ ConfigMissing)
    => (pc = "raised" /\ results = <<>> /\ sent = <<>>)

\* the scores of the entries without error, added up in ledger order
RECURSIVE SumOfSuccesses(_)
SumOfSuccesses(rs) ==
    IF rs = <<>> THEN Fin(0)
    ELSE IF IsFailure(rs[Len(rs)]) THEN SumOfSuccesses(SubSeq(rs, 1, Len(rs) - 1))
    ELSE FAdd(SumOfSuccesses(SubSeq(rs, 1, Len(rs) - 1)), rs[Len(rs)].overall_score)

\* C16: the average score of the summary is the sum of overall_score over all
\* N ledger entries divided by N, N being the number of test cases: a failed
\* case adds 0.0 to the sum and stays in the denominator.
C16_AverageOverAllCases ==
    summary.stage = "printed"
    => /\ summary.avg_score.den = Len(test_cases)
       /\ summary.avg_score.den = Len(results)
       /\ summary.avg_score.num = SumOfSuccesses(results)
       /\ \A i \in 1..Len(results) :
             IsFailure(results[i]) => results[i].overall_score = Fin(0)

C16_Witness ==
    /\ summary.stage = "printed"
    /\ Len(results) = MaxCases
    /\ Cardinality({i \in 1..Len(results) : IsFailure(results[i])}) = 1
    /\ \E i \in 1..Len(results) :
         /\ IsFailure(results[i])
         /\ results[i].error = GenerateFailedText(500)
    /\ summary.avg_score.den = MaxCases
    /\ summary.avg_score.num.k = "fin"
    /\ summary.avg_score.num.v > 0

\* C17: in the summary total_cases is the ledger length, successful_cases is
\* the number of entries whose metrics is not None, and successful_cases is
\* at most total_cases.
C17_SummaryCounts ==
    summary.stage = "printed"
    => /\ summary.total_cases = Len(results)
       /\ summary.successful_cases =
             Cardinality({i \in 1..Len(results) : results[i].metrics # PyNone})
       /\ summary.successful_cases <= summary.total_cases

C17_Witness ==
    /\ summary.stage = "printed"
    /\ summary.total_cases = MaxCases
    /\ summary.successful_cases = 1
    /\ summary.successful_cases < summary.total_cases

\* the value the metric entered the sum with: the judgment score extracted
\* for llm_judgment, the stored number for the others, nothing when absent
C18_Term(key, hundredths) ==
    IF key \notin DOMAIN fn.combined_metrics THEN Fin(0)
    ELSE IF key = "llm_judgment" THEN FMulWeight(fn.cs.llm_score, hundredths)
    ELSE FMulWeight(fn.combined_metrics[key].f, hundredths)

C18_Sum ==
    FAdd(FAdd(FAdd(FAdd(C18_Term("valid_yaml", 15), C18_Term("has_required_fields", 20)),
                   C18_Term("detection_logic_similarity", 25)),
              C18_Term("metadata_completeness", 10)),
         C18_Term("llm_judgment", 30))

\* C18: the value calculate_combined_score returns is the weighted sum of the
\* metrics present, with weights 0.15, 0.20, 0.25, 0.10, 0.30 (together 1.0),
\* limited to [0, 1]; an absent metric adds nothing and the sum is not
\* rescaled, so a metric set without llm_judgment scores at most 0.70.
C18_WeightedSumClamped ==
    /\ weights["valid_yaml"] + weights["has_required_fields"]
         + weights["detection_logic_similarity"] + weights["metadata_completeness"]
         + weights["llm_judgment"] = Hundred
    /\ (fn.stage \in {"scored", "subset"} /\ fn.cs.exc = "none")
       => /\ fn.cs.val =
                 IF C18_Sum.k = "nan" THEN C18_Sum
                 ELSE IF FLt(C18_Sum, Fin(0)) THEN Fin(0)
                 ELSE IF FLt(Fin(ScoreUnit), C18_Sum) THEN Fin(ScoreUnit)
                 ELSE C18_Sum
          /\ "llm_judgment" \notin DOMAIN fn.combined_metrics
                => (fn.cs.val.k = "fin" /\ fn.cs.val.v * Hundred <= 70 * ScoreUnit)

C18_Witness ==
    /\ fn.stage = "subset"
    /\ DOMAIN fn.combined_metrics = {"valid_yaml", "has_required_fields",
                                     "detection_logic_similarity", "metadata_completeness"}
    /\ fn.cs.exc = "none"
    /\ fn.cs.val = Fin(70 * Scale)

\* C19: in every successful ledger entry each value of metrics is a real
\* number in [0, 1]; the value under llm_judgment is the normalised judgment
\* score, not the judge's raw response.
C19_MetricsAreUnitReals ==
    \A i \in 1..Len(results) :
        ~IsFailure(results[i])
        => \A key \in DOMAIN results[i].metrics.d :
              LET value == results[i].metrics.d[key] IN
              /\ value.t = "float"
              /\ value.f.k = "fin"
              /\ 0 <= value.f.v
              /\ value.f.v <= Scale

\* the top-level keys of a parsed document (none when it is not a mapping)
TopLevelKeys(doc) == IF doc.t = "dict" THEN DOMAIN doc.d ELSE {}

\* C20: for a candidate that parses to a document (the expected rule too),
\* has_required_fields is the number of title, detection, logsource among the
\* top-level keys of the candidate divided by 3, and metadata_completeness the
\* number of description, author, date, level, tags among them divided by 5;
\* only key existence counts, not the value and not a field name occurring
\* elsewhere in the document.
C20_FieldFractions ==
    ( /\ fn.stage \in {"metrics", "scored", "subset"}
      /\ YamlLoad(fn.generated_rule).exc = "none"
      /\ YamlLoad(fn.generated_rule).val # PyNone
      /\ YamlLoad(fn.expected_rule).exc = "none"
      /\ YamlLoad(fn.expected_rule).val # PyNone )
    => LET keys == TopLevelKeys(YamlLoad(fn.generated_rule).val) IN
       /\ fn.lm.exc = "none"
       /\ fn.lm.val.t = "dict"
       /\ fn.lm.val.d["has_required_fields"] =
             PyFloat(Fin((Cardinality(keys \cap {"title", "detection", "logsource"}) * Scale)
                         \div 3))
       /\ fn.lm.val.d["metadata_completeness"] =
             PyFloat(Fin((Cardinality(keys \cap {"description", "author", "date",
                                                "level", "tags"}) * Scale) \div 5))

\* the similarity computation is reached and raises: a document without a
\* detection lookup, or the evaluator failing
SimilarityRaises ==
    /\ YamlLoad(fn.generated_rule).exc = "none"
    /\ YamlLoad(fn.expected_rule).exc = "none"
    /\ In("title", YamlLoad(fn.generated_rule).val).exc = "none"
    /\ \/ ~fn.ev.ok
       \/ DetectionString(YamlLoad(fn.generated_rule).val).exc # "none"
       \/ DetectionString(YamlLoad(fn.expected_rule).val).exc # "none"

\* C21: when the similarity computation raises, calculate_langchain_metrics
\* still returns the metric set, with detection_logic_similarity 0.0 and the
\* other metrics computed, and the score is computed from it: the failure
\* does not leave the scorer, so it cannot turn the case into an error entry.
C21_ScorerFailureGivesZero ==
    (fn.stage \in {"metrics", "scored"} /\ SimilarityRaises)
    => /\ fn.lm.exc = "none"
       /\ fn.lm.val.t = "dict"
       /\ fn.lm.val.d["detection_logic_similarity"] = PyFloat(Fin(0))
       /\ fn.lm.val.d["valid_yaml"] = PyFloat(Fin(Scale))
       /\ fn.lm.val.d["has_required_fields"] =
             PyFloat(Fin(FractionPresent({"title", "detection", "logsource"},
                                         YamlLoad(fn.generated_rule).val)))
       /\ fn.lm.val.d["metadata_completeness"] =
             PyFloat(Fin(FractionPresent({"description", "author", "date", "level", "tags"},
                                         YamlLoad(fn.generated_rule).val)))
       /\ fn.stage = "scored"
             => /\ fn.combined_metrics["detection_logic_similarity"] = PyFloat(Fin(0))
                /\ fn.cs.exc \in {"none", "OverflowError"}

C21_Witness ==
    /\ fn.stage = "scored"
    /\ SimilarityRaises
    /\ fn.ev.ok
    /\ fn.generated_rule = RULE_SCALAR
    /\ fn.cs.exc = "none"
    /\ fn.lm.val.d["has_required_fields"].f.v > 0
    /\ fn.cs.val.k = "fin"
    /\ fn.cs.val.v > 0

\* C22: cases are processed one after the other, with at most one request
\* outstanding: a request is issued only while none is outstanding; the
\* generator request of a case is issued only once every earlier case has its
\* entry; the judge request of a case is issued only after the generator
\* answered that case with a rule, and carries that rule.
C22_StrictlySequential ==
    [][ /\ (inflight' # inflight /\ inflight' # NoRequest)
           => /\ inflight = NoRequest
              /\ results' = results
              /\ idx' = idx
              /\ idx <= Len(test_cases)
              /\ Len(results) = idx - 1
        /\ (inflight' # inflight /\ inflight'.endpoint = "/api/v1/rules")
           => inflight'.body.query = test_cases[Len(results) + 1].query
        /\ (inflight' # inflight /\ inflight'.endpoint = "/api/v1/judge")
           => /\ response.endpoint = "/api/v1/rules"
              /\ response.status = 200
              /\ response.has_field
              /\ inflight'.body.rule1 = response.rule
              /\ inflight'.body.rule2 = test_cases[idx].expected_rule
        /\ (pc = "rules_wait" /\ Len(results') = Len(results) + 1)
           => (pc' = "case" /\ inflight' = NoRequest /\ sent' = sent)
      ]_vars

C22_Witness ==
    /\ pc = "judge_wait"
    /\ idx = MaxCases
    /\ Len(results) = MaxCases - 1
    /\ IsFailure(results[1])
    /\ inflight.endpoint = "/api/v1/judge"
    /\ Len(sent) = 2

\* the step is one call of the named method on the updater
UpdaterCalled(method) ==
    /\ updater'.calls = updater.calls + 1
    /\ updater'.last.method = method

IsDownload(request) == request.url = "releases/download"

\* C23: update_sigma_rules with a package_name that is not one of core,
\* core+, core++, emerging_threats, all raises ValueError without any network
\* request and without touching the rule directory or the updater's tags.
C23_InvalidPackageChangesNothing ==
    [][ ( /\ UpdaterCalled("update_sigma_rules")
          /\ updater'.last.package_name
                \notin {"core", "core+", "core++", "emerging_threats", "all"} )
        => /\ updater'.last.result = "ValueError"
           /\ updater'.last.requests = <<>>
           /\ updater'.rules = updater.rules
           /\ updater'.rules_et = updater.rules_et
           /\ updater'.version_txt = updater.version_txt
           /\ updater'.latest_tag = updater.latest_tag
           /\ updater'.installed_tag = updater.installed_tag ]_vars

C23_Witness ==
    /\ updater.last.method = "update_sigma_rules"
    /\ updater.last.package_name = "community"
    /\ updater.last.force
    /\ updater.last.result = "ValueError"
    /\ updater.last.before.rules
    /\ updater.rules

\* C28: _download_sigma_release with overwrite=True removes rules and
\* rules-emerging-threats before it validates the package and before it
\* downloads: when the package name is invalid or the download fails, the
\* exception leaves the rule directory without either directory, both through
\* a direct call and through update_sigma_rules.
C28_FailedDownloadLeavesNoRules ==
    [][ /\ ( /\ UpdaterCalled("_download_sigma_release")
              /\ updater'.last.overwrite
              /\ updater'.last.result \in {"ValueError", "Exception"} )
           => /\ ~updater'.rules
              /\ ~updater'.rules_et
              /\ updater'.version_txt = updater.version_txt
        /\ ( /\ UpdaterCalled("update_sigma_rules")
              /\ updater'.last.result = "Exception"
              /\ Len(SelectSeq(updater'.last.requests, IsDownload)) = 1 )
           => /\ ~updater'.rules
              /\ ~updater'.rules_et
              /\ updater'.version_txt = updater.version_txt
      ]_vars

C28_Witness ==
    /\ updater.last.method = "update_sigma_rules"
    /\ updater.last.result = "Exception"
    /\ Len(SelectSeq(updater.last.requests, IsDownload)) = 1
    /\ updater.last.before.rules
    /\ updater.last.before.rules_et
    /\ ~updater.rules
    /\ ~updater.rules_et

\* the step is a second update_sigma_rules(force=False) that resolves the
\* same tag the call before it has just downloaded
SecondUpdateSameTag ==
    /\ updater.last.method = "update_sigma_rules"
    /\ updater.last.result = "updated"
    /\ UpdaterCalled("update_sigma_rules")
    /\ ~updater'.last.force
    /\ updater'.latest_tag = updater.latest_tag
    /\ \/ updater'.last.result \in {"up_to_date", "updated"}
       \/ Len(SelectSeq(updater'.last.requests, IsDownload)) >= 1

\* C29 as stated: after a call that downloaded a release, a second
\* update_sigma_rules(force=False) for the same tag always downloads again
\* instead of reporting that the rules are up to date.
C29_SecondCallDownloadsAgain ==
    [][ SecondUpdateSameTag
        => /\ updater'.last.result # "up_to_date"
           /\ Len(SelectSeq(updater'.last.requests, IsDownload)) >= 1 ]_vars

\* C29 amended: installed_tag keeps the value read at construction; when that
\* value differs from the tag a call has just downloaded, a second
\* update_sigma_rules(force=False) for the same tag removes and downloads
\* again instead of reporting that the rules are up to date.
C29_StaleInstalledTagDownloadsAgain ==
    [][ /\ updater'.installed_tag = updater.installed_tag
        /\ (SecondUpdateSameTag /\ updater.installed_tag # updater.latest_tag)
           => /\ updater'.last.result # "up_to_date"
              /\ Len(SelectSeq(updater'.last.requests, IsDownload)) >= 1 ]_vars

C29_Witness ==
    /\ updater.calls = 2
    /\ updater.last.method = "update_sigma_rules"
    /\ ~updater.last.force
    /\ updater.last.before.result = "updated"
    /\ updater.last.before.latest_tag = updater.latest_tag
    /\ updater.installed_tag # updater.latest_tag
    /\ updater.version_txt = updater.latest_tag
    /\ updater.last.result = "updated"

\* C24: on a guarded endpoint the handler body, and so any assistant call,
\* runs only for the header 'Bearer <k>' with <k> the configured
\* SERVICE_API_KEY; every other request (that the rate limiter lets through)
\* is answered 401 without an assistant call.
C24_OnlyTheKeyRunsTheHandler ==
    (app.stage # "none" /\ app.stage # "received" /\ ~app.request.limited)
    => IF app.request.auth = AUTH_KEY /\ app.key = "k"
       THEN TRUE
       ELSE /\ ~app.handler_ran
            /\ app.assistant_calls = 0
            /\ app.response = 401

\* C26 as stated: once the run has ended failed, cancelled or expired the
\* request never gets a response.
C26_EndedRunNeverAnswered ==
    (app.stage # "none" /\ app.run_status \in {"failed", "cancelled", "expired"})
    => app.response = 0

\* C26 amended: the polling loop ends by itself only on the status
\* 'completed'; for a run that ended failed, cancelled or expired every poll
\* that is answered is followed by another poll and the request gets no
\* response from the handler's normal path: it is answered only when a
\* runs.retrieve call raises, and then with 500.
C26_LoopEndsOnlyOnCompleted ==
    [][ /\ ( /\ app.stage = "polling"
              /\ app'.polls = app.polls + 1
              /\ app'.polled \notin {"completed", "error"} )
           => /\ app'.stage = "polling"
              /\ app'.response = 0
        /\ (app.stage = "polling" /\ app'.stage = "responded")
           => /\ app'.polled \in {"completed", "error"}
              /\ app'.polled = "error" => app'.response = 500
              /\ app.run_status \in {"failed", "cancelled", "expired"}
                    => (app'.polled = "error" /\ app'.response = 500)
      ]_vars

C26_Witness ==
    /\ app.stage = "polling"
    /\ app.run_status = "failed"
    /\ app.polled = "failed"
    /\ app.polls = MaxPolls
    /\ app.response = 0

\* C25: in the benchmark-ai harness evaluate_rule raises NameError
\* (calculate_score is undefined), so every entry of the ledger is a failure
\* entry, also for a case whose generator and judge both answered 200 with
\* their field, and the number of successful cases is 0.
C25_BenchEveryCaseFails ==
    variant = "bench"
    => /\ \A i \in 1..Len(results) :
             /\ IsFailure(results[i])
             /\ results[i].metrics = PyNone
       /\ successful_cases(results) = 0
       /\ ( /\ CaseJustEnded
            /\ response.endpoint = "/api/v1/judge"
            /\ response.status = 200
            /\ response.has_field )
          => LastEntry.error = "name 'calculate_score' is not defined"

C25_Witness ==
    /\ variant = "bench"
    /\ pc = "done"
    /\ Len(results) = MaxCases
    /\ Len(sent) = 2
    /\ response.endpoint = "/api/v1/judge"
    /\ response.status = 200
    /\ response.has_field
    /\ LastEntry.error = "name 'calculate_score' is not defined"

\* the keys of a failure entry
FailureKeys ==
    IF variant = "main"
    THEN {"query", "error", "metrics", "overall_score", "llm_judgment_text"}
    ELSE {"query", "error", "metrics", "overall_score"}

\* C27: a step that fails a case after its rule was generated appends an entry
\* with query, error, metrics None and overall_score 0.0 (and
\* llm_judgment_text None in the main harness) and nothing else: the
\* generated rule and the expected rule are not in it.
C27_FailureEntryHasNoRules ==
    [][ ( /\ Len(results') = Len(results) + 1
          /\ IsFailure(results'[Len(results')]) )
        => LET entry == results'[Len(results')] IN
           /\ DOMAIN entry = FailureKeys
           /\ entry.query = test_cases[idx].query
           /\ entry.metrics = PyNone
           /\ entry.overall_score = Fin(0)
           /\ variant = "main" => entry.llm_judgment_text = PyNone
           /\ {"generated_rule", "expected_rule"} \cap DOMAIN entry = {}
           /\ \A key \in {"query", "error"} :
                  /\ entry[key] # test_cases[idx].expected_rule
                  /\ pc = "judge_wait" => entry[key] # yaml_block
      ]_vars

C27_Witness ==
    /\ CaseJustEnded
    /\ Len(sent) = 2
    /\ response.endpoint = "/api/v1/judge"
    /\ response.status = 200
    /\ ~response.has_field
    /\ IsFailure(LastEntry)
    /\ DOMAIN LastEntry = FailureKeys
    /\ LastRequest.body.rule1 # ""

\* the current case is a record without the "query" key
QueryMissing ==
    /\ pc = "case"
    /\ idx <= Len(test_cases)
    /\ "query" \notin DOMAIN test_cases[idx]

\* C30: when the loop reaches a test case without the query key the KeyError
\* leaves run_evaluation from its own error handler: no entry is appended for
\* the case, no request is sent for it or for a later case, and the run ends
\* raised, never returning the ledger.
C30_MissingQueryEndsTheRun ==
    [][ /\ QueryMissing
           => /\ pc' = "raised"
              /\ results' = results
              /\ Len(results') = idx - 1
              /\ sent' = sent
              /\ inflight' = NoRequest
              /\ idx' = idx
        /\ (pc = "raised" /\ pc' # pc) => FALSE
      ]_vars

C30_Witness ==
    /\ pc = "raised"
    /\ ~ConfigMissing
    /\ idx = 1
    /\ Len(test_cases) = MaxCases
    /\ "query" \notin DOMAIN test_cases[1]
    /\ "query" \in DOMAIN test_cases[MaxCases]
    /\ results = <<>>
    /\ sent = <<>>

====

